---- MODULE Spec2Model ----
(***************************************************************************)
(* Model of SIM_f110Env (src/src/f110_gym/sim_f110_core.py): the gym       *)
(* environment of the F110 car on AirSim.  One caller drives the           *)
(* environment synchronously; the simulator client is an external service  *)
(* whose answers (image responses, LiDAR point clouds) are nondeterministic.*)
(*                                                                         *)
(* Floats are modelled as integers: angles are in hundredths of a unit     *)
(* (0.05 is 5), LiDAR scalars and speeds are small integers.  Only         *)
(* comparisons and copies are applied to them by the code.                 *)
(***************************************************************************)
EXTENDS Integers, Sequences, FiniteSets, TLC

(***************************************************************************)
(* Program constants                                                       *)
(***************************************************************************)
\* deque(maxlen=500)
HistoryMaxLen == 500
\* for i in range(40)
HistoryCopies == 40
\* the literal 0.05 of add_to_history, in hundredths
AngleThreshold == 5
\* len(lidarData.point_cloud) >= 3
MinCloudLen == 3
\* np.reshape(pc, (-1, 3))
RowLen == 3

(***************************************************************************)
(* Bounds of the model                                                     *)
(***************************************************************************)
\* longest point cloud (in scalars) drawn for the simulator's answers
MaxCloudLen == 6
\* getLidarData calls of one cycle that are counted and logged individually
MaxPolls == 2
\* logging add_to_history calls already made when SpecHist starts (at most)
MaxPrefill == 12
\* direct add_to_history calls made in a behaviour of SpecHist
MaxHistCalls == 3

(***************************************************************************)
(* Python values                                                           *)
(***************************************************************************)
\* Python's None, and an ndarray of rows, as tagged values
PyNone == [tag |-> "None", rows |-> <<>>]
NdArray(rows) == [tag |-> "ndarray", rows |-> rows]

\* info = {}
EmptyInfo == <<>>

abs(x) == IF x < 0 THEN -x ELSE x

RECURSIVE SeqsUpTo(_, _)
SeqsUpTo(S, n) ==
    IF n = 0 THEN {<<>>}
    ELSE LET shorter == SeqsUpTo(S, n - 1)
         IN  shorter \cup {Append(s, x) : s \in {t \in shorter : Len(t) = n - 1}, x \in S}

(***************************************************************************)
(* Inputs: what the caller passes and what the simulator answers           *)
(***************************************************************************)
CloudScalars == {1, 2}
\* a 4-point LiDAR sample
FourPointSample == <<1, 2, 3, 2, 3, 1, 3, 1, 2, 1, 3, 2>>
Clouds == SeqsUpTo(CloudScalars, MaxCloudLen) \cup {FourPointSample}

\* image responses: declared height and width, and the byte buffer's length
ImageResponses ==
    { [height |-> 2, width |-> 2, nbytes |-> 12],
      [height |-> 2, width |-> 2, nbytes |-> 11],
      [height |-> 1, width |-> 2, nbytes |-> 2],
      [height |-> 0, width |-> 0, nbytes |-> 0] }

\* step's action: {"angle": float, "speed": float}
Actions == [angle : {-6, 0, 6}, speed : {0, 1}]

\* steering commands offered directly to add_to_history
HistAngles == {-10, -6, -5, 0, 6}
HistSteers == [angle : HistAngles, steering_angle_velocity : {0}, speed : {0}]

NoAction == [angle |-> 0, speed |-> 0]
NoCloud == <<>>

(***************************************************************************)
(* Geometry transform                                                      *)
(***************************************************************************)
\* np.reshape(pc, (-1, 3)) raises ValueError unless the size is a multiple of 3
CanReshape(pc) == Len(pc) % RowLen = 0

Reshape(pc) ==
    [i \in 1..(Len(pc) \div RowLen) |->
        <<pc[RowLen * (i - 1) + 1], pc[RowLen * (i - 1) + 2], pc[RowLen * (i - 1) + 3]>>]

\* pcnp[..., 0:2]
FirstTwoColumns(rows) == [i \in 1..Len(rows) |-> <<rows[i][1], rows[i][2]>>]

\* the unswapped projection (what transformLidar computes)
pc_to_np_noswap(pc) == FirstTwoColumns(Reshape(pc))

\* out[:, 0] = pcnp[:, 1]; out[:, 1] = pcnp[:, 0]
pc_to_np(pc) ==
    LET pcnp == FirstTwoColumns(Reshape(pc))
    IN  [i \in 1..Len(pcnp) |-> <<pcnp[i][2], pcnp[i][1]>>]

\* process_lidar ends without a return statement: the call evaluates to None
process_lidar(pc) ==
    LET lidarData == pc_to_np(pc)
    IN  PyNone

(***************************************************************************)
(* Image decoding                                                          *)
(***************************************************************************)
\* np.fromstring(...).reshape(height, width, -1) raises ValueError unless the
\* buffer splits evenly into height * width cells
CanDecode(rep) ==
    /\ rep.height * rep.width > 0
    /\ rep.nbytes % (rep.height * rep.width) = 0

\* the decoded frame, described by its shape
bytestr_to_np(rep) ==
    [height |-> rep.height, width |-> rep.width,
     channels |-> rep.nbytes \div (rep.height * rep.width)]

(***************************************************************************)
(* History buffer                                                          *)
(***************************************************************************)
\* a deque that never evicts
DequeAppendUnbounded(h, x) == Append(h, x)

\* deque(maxlen=500).append: a full deque drops its head
DequeAppend(h, x) ==
    IF Len(h) >= HistoryMaxLen THEN Append(Tail(h), x) ELSE Append(h, x)

\* self.history.append(steer); log is the record of every append made
HistoryAppend(st, x) ==
    [buf |-> DequeAppend(st.buf, x), log |-> Append(st.log, x)]

RECURSIVE AppendLoop(_, _, _)
AppendLoop(st, x, n) ==
    IF n = 0 THEN st
    ELSE LET next == HistoryAppend(st, x)
         IN  IF Len(next.log) > 0 THEN AppendLoop(next, x, n - 1) ELSE next

\* the trigger with OR in place of AND
ShouldLogEither(steer) ==
    abs(steer.angle) > AngleThreshold \/ steer.angle < -AngleThreshold

\* the trigger without its second conjunct
ShouldLogMagnitude(steer) == abs(steer.angle) > AngleThreshold

\* the trigger with its test inverted
ShouldLogWithin(steer) == ~(abs(steer.angle) > AngleThreshold)

\* abs(steer["angle"]) > 0.05 and steer["angle"] < -0.05
ShouldLog(steer) ==
    abs(steer.angle) > AngleThreshold /\ steer.angle < -AngleThreshold

\* add_to_history appending a single copy
add_to_history_once(st, steer) ==
    IF ShouldLog(steer) THEN HistoryAppend(st, steer) ELSE st

\* add_to_history without its condition
add_to_history_unconditional(st, steer) == AppendLoop(st, steer, HistoryCopies)

add_to_history(st, steer) ==
    IF ShouldLog(steer) THEN AppendLoop(st, steer, HistoryCopies) ELSE st

(***************************************************************************)
(* Episode controller stubs                                                *)
(***************************************************************************)
get_reward == 0

\* a termination check that fires
tooclose_always == TRUE
tooclose == FALSE

(***************************************************************************)
(* Simulator client calls                                                  *)
(***************************************************************************)
\* airsim.CarControls(): the fields the client sends, at their defaults
CarControls == [throttle |-> 0, steering |-> 0, brake |-> 0]

ClientCall(fn) == [fn |-> fn, controls |-> CarControls]

\* the controls with the two fields crossed
CarControlsCrossed(a) ==
    [CarControls EXCEPT !.throttle = a.angle, !.steering = a.speed]

\* car_controls.throttle = action.get("speed")
\* car_controls.steering = action.get("angle")
CarControlsFor(a) ==
    [CarControls EXCEPT !.throttle = a.speed, !.steering = a.angle]

SetCarControls(c) == [fn |-> "setCarControls", controls |-> c]

(***************************************************************************)
(* Results of a public call                                                *)
(***************************************************************************)
NoResult == [kind |-> "none", error |-> "", value |-> PyNone]
Return(v) == [kind |-> "return", error |-> "", value |-> v]
Raise(e) == [kind |-> "raise", error |-> e, value |-> PyNone]

(***************************************************************************)
(* State                                                                   *)
(***************************************************************************)
VARIABLES
    pc,         \* "idle": no call in progress; "poll": inside _get_obs's while loop
    op,         \* the public method called last ("none" before the first call)
    action,     \* step's argument
    calls,      \* the simulator client calls made by the call, in order
                \* (getLidarData is logged for the first MaxPolls polls)
    responses,  \* what simGetImages answered
    imgs,       \* _get_obs's local imgs
    nPolls,     \* getLidarData calls of the cycle, counted up to MaxPolls
    lidarData,  \* the last answer of getLidarData
    lidarArg,   \* the point cloud handed to process_lidar (NoCloud: none yet)
    planar,     \* process_lidar's local lidarData: what pc_to_np returned
    steerArg,   \* the last argument of add_to_history
    history,    \* self.history
    appended,   \* every command appended to self.history, in order
    nHistCalls, \* add_to_history calls made by the caller directly
    result      \* how the last call ended

vars == <<pc, op, action, calls, responses, imgs, nPolls, lidarData, lidarArg,
          planar, steerArg, history, appended, nHistCalls, result>>

\* a steer entry that echoes the action of the call
EchoSteer ==
    [angle |-> action.angle, steering_angle_velocity |-> 0, speed |-> action.speed]

\* steer = {"angle": 0.0, "steering_angle_velocity": 0.0, "speed": 0.0}
ZeroSteer == [angle |-> 0, steering_angle_velocity |-> 0, speed |-> 0]

\* __init__
Init ==
    /\ pc = "idle"
    /\ op = "none"
    /\ action = NoAction
    /\ calls = <<>>
    /\ responses = <<>>
    /\ imgs = <<>>
    /\ nPolls = 0
    /\ lidarData = NoCloud
    /\ lidarArg = NoCloud
    /\ planar = PyNone
    /\ steerArg = ZeroSteer
    /\ history = <<>>
    /\ appended = <<>>
    /\ nHistCalls = 0
    /\ result = NoResult

(***************************************************************************)
(* _get_obs up to its while loop: _get_imgs                                *)
(***************************************************************************)
\* _get_obs going on to the LiDAR after a failed decoding
EnterGetObsSwallowing(name, a, made) ==
    /\ pc = "idle"
    /\ op' = name
    /\ action' = a
    /\ nPolls' = 0
    /\ lidarData' = NoCloud
    /\ lidarArg' = NoCloud
    /\ planar' = PyNone
    /\ \E rep \in ImageResponses :
        /\ responses' = <<rep>>
        /\ calls' = Append(made, ClientCall("simGetImages"))
        /\ imgs' = IF CanDecode(rep) THEN <<bytestr_to_np(rep)>> ELSE <<>>
        /\ pc' = "poll"
        /\ result' = NoResult
    /\ UNCHANGED <<steerArg, history, appended, nHistCalls>>

\* a public call that has made the client calls `made` enters _get_obs
EnterGetObs(name, a, made) ==
    /\ pc = "idle"
    /\ op' = name
    /\ action' = a
    /\ nPolls' = 0
    /\ lidarData' = NoCloud
    /\ lidarArg' = NoCloud
    /\ planar' = PyNone
    /\ \E rep \in ImageResponses :
        /\ responses' = <<rep>>
        /\ calls' = Append(made, ClientCall("simGetImages"))
        /\ IF CanDecode(rep)
           THEN /\ imgs' = <<bytestr_to_np(rep)>>
                /\ pc' = "poll"
                /\ result' = NoResult
           ELSE /\ imgs' = <<>>
                /\ pc' = "idle"
                /\ result' = Raise("ValueError")
    /\ UNCHANGED <<steerArg, history, appended, nHistCalls>>

\* a reset that skips client.reset()
ResetWithoutClientReset == EnterGetObs("reset", NoAction, <<>>)

\* reset(): client.reset(), sleep, _get_obs()
Reset == EnterGetObs("reset", NoAction, <<ClientCall("reset")>>)

\* step(action): build the controls, setCarControls, sleep, _get_obs()
Step(a) == EnterGetObs("step", a, <<SetCarControls(CarControlsFor(a))>>)

(***************************************************************************)
(* serialize_obs, inherited from Env                                       *)
(***************************************************************************)
\* how a call that made no client call and no observation cycle ends
EndsWith(name, res) ==
    /\ pc = "idle"
    /\ op' = name
    /\ result' = res
    /\ action' = NoAction
    /\ calls' = <<>>
    /\ responses' = <<>>
    /\ imgs' = <<>>
    /\ nPolls' = 0
    /\ lidarData' = NoCloud
    /\ lidarArg' = NoCloud
    /\ planar' = PyNone
    /\ UNCHANGED <<pc, steerArg, history, appended, nHistCalls>>

\* a serialize_obs with an empty body
SerializeObsReturning == EndsWith("serialize_obs", Return(PyNone))

\* raise NotImplementedError
SerializeObs == EndsWith("serialize_obs", Raise("NotImplementedError"))

(***************************************************************************)
(* One iteration of _get_obs's while loop, and the rest of the call when   *)
(* the loop breaks                                                         *)
(***************************************************************************)
\* the loop condition off by one, either way
PollAcceptsStrict(cloud) == Len(cloud) > MinCloudLen
PollAcceptsLenient(cloud) == Len(cloud) >= MinCloudLen - 1

\* if len(lidarData.point_cloud) >= 3: break
PollAccepts(cloud) == Len(cloud) >= MinCloudLen

GetLidar(cloud) ==
    /\ pc = "poll"
    /\ lidarData' = cloud
    /\ nPolls' = IF nPolls < MaxPolls THEN nPolls + 1 ELSE nPolls
    /\ calls' = IF nPolls < MaxPolls
                THEN Append(calls, ClientCall("getLidarData"))
                ELSE calls
    /\ IF PollAccepts(cloud)
       THEN /\ lidarArg' = cloud
            /\ pc' = "idle"
            /\ IF CanReshape(cloud)
               THEN LET lidar == process_lidar(cloud)
                        steer == ZeroSteer
                        latest_dict ==
                            [lidar_pc |-> lidar, steer |-> steer, img |-> imgs]
                        st == add_to_history(
                                  [buf |-> history, log |-> appended], steer)
                    IN  /\ planar' = NdArray(pc_to_np(cloud))
                        /\ steerArg' = steer
                        /\ history' = st.buf
                        /\ appended' = st.log
                        /\ result' =
                             IF op = "step"
                             THEN Return(<<latest_dict, get_reward, tooclose,
                                           EmptyInfo>>)
                             ELSE Return(latest_dict)
               ELSE /\ result' = Raise("ValueError")
                    /\ UNCHANGED <<planar, steerArg, history, appended>>
       ELSE UNCHANGED <<pc, lidarArg, planar, steerArg, history, appended,
                        result>>
    /\ UNCHANGED <<op, action, responses, imgs, nHistCalls>>

\* the simulator answers with a cloud that ends the polling
GetLidarValid ==
    \E cloud \in {c \in Clouds : Len(c) >= MinCloudLen} : GetLidar(cloud)

Next ==
    \/ Reset
    \/ \E a \in Actions : Step(a)
    \/ \E cloud \in Clouds : GetLidar(cloud)
    \/ SerializeObs

Spec == Init /\ [][Next]_vars

\* the simulator is assumed always eventually ready
LiveSpec == Spec /\ WF_vars(GetLidarValid)

(***************************************************************************)
(* add_to_history called on its own                                        *)
(***************************************************************************)
PrefillSteer == [angle |-> -6, steering_angle_velocity |-> 0, speed |-> 0]

RECURSIVE Prefilled(_)
Prefilled(n) ==
    IF n = 0 THEN [buf |-> <<>>, log |-> <<>>]
    ELSE LET before == Prefilled(n - 1)
         IN  IF Len(before.log) >= 0
             THEN add_to_history(before, PrefillSteer)
             ELSE before

\* the environment after up to MaxPrefill calls add_to_history(PrefillSteer)
InitHist ==
    /\ pc = "idle"
    /\ action = NoAction
    /\ calls = <<>>
    /\ responses = <<>>
    /\ imgs = <<>>
    /\ nPolls = 0
    /\ lidarData = NoCloud
    /\ lidarArg = NoCloud
    /\ planar = PyNone
    /\ result = NoResult
    /\ nHistCalls = 0
    /\ \E n \in 0..MaxPrefill :
        /\ op = IF n = 0 THEN "none" ELSE "add_to_history"
        /\ steerArg = IF n = 0 THEN ZeroSteer ELSE PrefillSteer
        /\ history = Prefilled(n).buf
        /\ appended = Prefilled(n).log

AddToHistory(steer) ==
    /\ pc = "idle"
    /\ nHistCalls < MaxHistCalls
    /\ nHistCalls' = nHistCalls + 1
    /\ LET st == add_to_history([buf |-> history, log |-> appended], steer)
       IN  /\ history' = st.buf
           /\ appended' = st.log
    /\ op' = "add_to_history"
    /\ steerArg' = steer
    /\ result' = Return(PyNone)
    /\ UNCHANGED <<action, calls, responses, imgs, nPolls, lidarData, lidarArg,
                   planar, pc>>

NextHist == \E steer \in HistSteers : AddToHistory(steer)

SpecHist == InitHist /\ [][NextHist]_vars

(***************************************************************************)
(* Helpers of the properties                                               *)
(***************************************************************************)
Min(a, b) == IF a < b THEN a ELSE b

LastN(s, n) == SubSeq(s, Len(s) - n + 1, Len(s))

\* the observation a returned reset() or step() handed to the caller
ReturnedObs == IF op = "step" THEN result.value[1] ELSE result.value

Returned == op \in {"reset", "step"} /\ pc = "idle" /\ result.kind = "return"

CallsOf(fn) == {i \in DOMAIN calls : calls[i].fn = fn}

\* the i-th point (x, y) of a flat point cloud, with the axes swapped
SwappedPoint(cloud, i) == <<cloud[3 * (i - 1) + 2], cloud[3 * (i - 1) + 1]>>

(***************************************************************************)
(* Properties                                                              *)
(***************************************************************************)

\* C1: every step call that returns yields reward 0, done False and an empty
\* info mapping, whatever the action and whatever calls came before.
C1_StepReturnsStubValues ==
    (op = "step" /\ result.kind = "return") =>
        /\ result.value[2] = 0
        /\ result.value[3] = FALSE
        /\ result.value[4] = <<>>

\* a step with a non-zero action has returned
C1_Witness ==
    /\ op = "step" /\ result.kind = "return"
    /\ action.angle = 6 /\ action.speed = 1

\* C2: the history buffer never holds more than 500 entries and always holds
\* exactly the last min(k, 500) of the k commands appended so far, in append
\* order (an append to a full buffer evicts the oldest entry).
C2_HistoryIsLastAppended ==
    /\ Len(history) <= 500
    /\ history = LastN(appended, Min(Len(appended), 500))

\* more than 500 appends were made, of two different commands, and an entry
\* of the first kind was evicted
C2_Witness ==
    /\ Len(appended) > 500
    /\ Len(history) = 500
    /\ history[1] /= history[500]
    /\ appended[1] /= appended[Len(appended)]

\* C3: within one observation cycle a reading with fewer than 3 scalars is
\* never handed to process_lidar and is followed by another poll; the first
\* reading with at least 3 scalars ends the polling and is the one processed,
\* and no getLidarData call is made outside the polling loop.
C3_ShortReadingNeverProcessed ==
    /\ [](lidarArg /= NoCloud =>
            Len(lidarArg) >= 3 /\ lidarArg = lidarData /\ pc = "idle")
    /\ [][ /\ pc = "poll" /\ Len(lidarData') < 3 =>
                pc' = "poll" /\ lidarArg' = NoCloud
           /\ pc = "poll" /\ Len(lidarData') >= 3 =>
                pc' = "idle" /\ lidarArg' = lidarData'
           /\ pc = "idle" => nPolls' = 0 /\ lidarData' = NoCloud ]_vars

\* the second poll of a cycle answered exactly 3 scalars and was processed
C3_Witness ==
    /\ pc = "idle" /\ nPolls = 2
    /\ Len(lidarArg) = 3
    /\ result.kind = "return"

\* C4: the lidar entry of the observation returned by reset() and step() is
\* the PlanarPoints of the accepted point cloud: one (y, x) pair per point, in
\* the cloud's order.
C4_LidarEntryIsPlanarPoints ==
    Returned =>
        /\ ReturnedObs.lidar_pc.tag = "ndarray"
        /\ Len(ReturnedObs.lidar_pc.rows) = Len(lidarArg) \div 3
        /\ \A i \in 1..(Len(lidarArg) \div 3) :
              ReturnedObs.lidar_pc.rows[i] = SwappedPoint(lidarArg, i)

\* C5: pc_to_np maps a cloud of N >= 1 triples to N pairs, the i-th being
\* (y, x) of the i-th triple: z dropped, axes swapped, order kept.
C5_PcToNpSwapsAxes ==
    planar.tag = "ndarray" =>
        /\ Len(lidarArg) >= 3
        /\ Len(planar.rows) * 3 = Len(lidarArg)
        /\ \A i \in 1..Len(planar.rows) :
              planar.rows[i] = SwappedPoint(lidarArg, i)

\* two different points, each with x /= y, were transformed
C5_Witness ==
    /\ lidarArg = <<1, 2, 2, 2, 1, 1>>
    /\ planar.tag = "ndarray"
    /\ planar.rows = << <<2, 1>>, <<1, 2>> >>

\* C6 as stated: no add_to_history call changes the history buffer, whatever
\* the angle of the command.
C6_NoCommandIsLogged ==
    [][nHistCalls' /= nHistCalls => history' = history /\ appended' = appended]_vars

\* C6 amended: the trigger holds exactly for angle < -0.05; add_to_history
\* leaves the buffer unchanged for a command with angle >= -0.05 and appends
\* the command (which then is the newest entry) for one with angle < -0.05.
C6_LoggedExactlyBelowThreshold ==
    [][nHistCalls' /= nHistCalls =>
          IF steerArg'.angle >= -5
          THEN history' = history /\ appended' = appended
          ELSE /\ Len(appended') > Len(appended)
               /\ history'[Len(history')] = steerArg']_vars

\* a command with angle -0.10 was logged, then one with angle 0.06 was not
C6_Witness ==
    /\ op = "add_to_history" /\ nHistCalls = 2
    /\ steerArg.angle = 6
    /\ Len(history) = 40
    /\ history[40].angle = -10

\* C7: every point cloud the poll accepts (at least 3 scalars, divisible by 3
\* or not) lets the observation cycle return an observation.
C7_AcceptedCloudReturns ==
    (pc = "idle" /\ Len(lidarArg) >= 3) => result.kind = "return"

\* C8: under a sensor that eventually answers at least 3 scalars every call
\* that polls ends; and a reading with fewer than 3 scalars never ends the
\* call, however many polls were made (no retry bound, no timeout error).
C8_PollIsOnlyUnboundedWait ==
    /\ (pc = "poll") ~> (pc = "idle")
    /\ [][pc = "poll" /\ Len(lidarData') < 3 =>
            pc' = "poll" /\ result' = NoResult]_vars

\* the counted polls are used up and the call is still polling
C8_Witness ==
    /\ pc = "poll" /\ nPolls = MaxPolls
    /\ Len(lidarData) < 3

\* C9: a step call dispatches exactly one actuator command, first of all its
\* client calls, with throttle = action.speed, steering = action.angle and
\* every other field at its default.
C9_StepDispatchesActionFirst ==
    op = "step" =>
        /\ Cardinality(CallsOf("setCarControls")) = 1
        /\ calls[1].fn = "setCarControls"
        /\ calls[1].controls =
              [throttle |-> action.speed, steering |-> action.angle, brake |-> 0]
        /\ \A i \in CallsOf("simGetImages") \cup CallsOf("getLidarData") : i > 1

\* a step with angle 0.06 and speed 1 went on to poll camera and LiDAR
C9_Witness ==
    /\ op = "step" /\ action.angle = 6 /\ action.speed = 1
    /\ CallsOf("simGetImages") /= {} /\ CallsOf("getLidarData") /= {}

\* C10: a reset call issues exactly one simulator reset, first of all its
\* client calls, dispatches no actuator command, and returns the observation
\* _get_obs assembled (its lidar_pc, steer and img entries).
C10_ResetThenObserve ==
    op = "reset" =>
        /\ Cardinality(CallsOf("reset")) = 1
        /\ calls[1].fn = "reset"
        /\ CallsOf("setCarControls") = {}
        /\ \A i \in CallsOf("simGetImages") \cup CallsOf("getLidarData") : i > 1
        /\ result.kind = "return" =>
              /\ DOMAIN result.value = {"lidar_pc", "steer", "img"}
              /\ result.value.steer = ZeroSteer
              /\ result.value.img = imgs
              /\ Len(result.value.img) = 1

\* a reset that polled the LiDAR at least twice has returned an observation
C10_Witness ==
    /\ op = "reset" /\ result.kind = "return"
    /\ nPolls = 2

\* C11: a call whose image response declares 2 x 2 with a buffer of 11 bytes
\* ends in the error ObservationUnavailable and returns no observation; a
\* buffer of 12 bytes declared 2 x 2 decodes to one 2 x 2 x 3 frame.
C11_MalformedImageIsObservationUnavailable ==
    (op \in {"reset", "step"} /\ responses /= <<>>) =>
        /\ responses[1] = [height |-> 2, width |-> 2, nbytes |-> 11] =>
              /\ pc = "idle"
              /\ result.kind = "raise"
              /\ result.error = "ObservationUnavailable"
        /\ responses[1] = [height |-> 2, width |-> 2, nbytes |-> 12] =>
              imgs = <<[height |-> 2, width |-> 2, channels |-> 3]>>

\* C12: a command whose angle is >= -0.05 (0.06 in particular) does not
\* trigger the amplification: add_to_history appends nothing and leaves the
\* history buffer as it was.
C12_PositiveAngleNotLogged ==
    [][(nHistCalls' /= nHistCalls /\ steerArg'.angle >= -5) =>
          UNCHANGED <<history, appended>>]_vars

\* add_to_history was offered angle 0.06 on a buffer holding 480 entries
C12_Witness ==
    /\ op = "add_to_history" /\ nHistCalls = 1
    /\ steerArg.angle = 6
    /\ Len(history) = 480
    /\ Len(appended) = 480

\* C13: a call of add_to_history that logs appends exactly 40 copies of its
\* command: the buffer then has min(500, previous length + 40) entries, its
\* last 40 entries are that command and the entries before them are the most
\* recent previous entries in their order.
C13_LoggingAppendsFortyCopies ==
    [][(nHistCalls' /= nHistCalls /\ steerArg'.angle < -5) =>
          LET kept == Len(history') - 40
          IN  /\ Len(appended') = Len(appended) + 40
              /\ Len(history') = Min(500, Len(history) + 40)
              /\ \A i \in (kept + 1)..Len(history') : history'[i] = steerArg'
              /\ SubSeq(history', 1, kept) = LastN(history, kept)]_vars

\* 40 copies of a second command were logged onto a buffer of 480 entries,
\* evicting 20 of them
C13_Witness ==
    /\ op = "add_to_history" /\ nHistCalls = 1
    /\ steerArg.angle = -10
    /\ Len(appended) = 520
    /\ Len(history) = 500
    /\ history[460].angle = -6
    /\ history[461].angle = -10

\* C14 as stated: every reset() or step() call that returns an observation has
\* added at least one entry to the history buffer.
C14_EveryCycleAppends ==
    [][(pc = "poll" /\ result'.kind = "return") =>
          Len(appended') > Len(appended)]_vars

\* C14 amended: every reset() or step() call that returns an observation has
\* offered the zeroed placeholder steer to add_to_history, which does not log
\* it: the call adds no entry and leaves the history buffer as it was.
C14_EveryCycleOffersUnloggedSteer ==
    [][(pc = "poll" /\ result'.kind = "return") =>
          /\ steerArg' = IF op' = "step" THEN result'.value[1].steer
                                          ELSE result'.value.steer
          /\ steerArg'.angle = 0
          /\ UNCHANGED <<history, appended>>]_vars

\* a step with a steering angle below -0.05 returned its observation
C14_Witness ==
    /\ op = "step" /\ pc = "idle" /\ result.kind = "return"
    /\ action.angle = -6
    /\ steerArg.angle = 0
    /\ appended = <<>>

\* C15: serialize_obs always ends in NotImplementedError, in whatever state it
\* is called, makes no simulator call and leaves the history buffer unchanged.
C15_SerializeObsNotImplemented ==
    /\ [](op = "serialize_obs" =>
            /\ pc = "idle"
            /\ result.kind = "raise"
            /\ result.error = "NotImplementedError"
            /\ calls = <<>>)
    /\ [][op' = "serialize_obs" =>
            /\ history' = history
            /\ appended' = appended
            /\ steerArg' = steerArg]_vars

\* serialize_obs was called and ended
C15_Witness ==
    /\ op = "serialize_obs"
    /\ result.kind = "raise"

\* C16: driven through reset() and step() only, the history buffer is empty
\* in every reachable state: nothing was ever appended, and the only command
\* offered to it is the zeroed placeholder.
C16_HistoryStaysEmpty ==
    /\ history = <<>>
    /\ appended = <<>>
    /\ steerArg = [angle |-> 0, steering_angle_velocity |-> 0, speed |-> 0]

\* a reset that polled the LiDAR twice has returned, the buffer still empty
C16_Witness ==
    /\ op = "reset" /\ pc = "idle" /\ result.kind = "return"
    /\ nPolls = 2
    /\ history = <<>>

\* C17: the steer entry of every returned observation is the zeroed
\* placeholder and a step's reward, done and info are 0, False and empty,
\* whatever the action of the call: the returned steer, reward, done and info
\* are the same constants in every run, so runs that differ only in their
\* actions agree on them.
C17_SteerIndependentOfAction ==
    Returned =>
        /\ ReturnedObs.steer =
              [angle |-> 0, steering_angle_velocity |-> 0, speed |-> 0]
        /\ op = "step" =>
              <<result.value[2], result.value[3], result.value[4]>> =
                  <<0, FALSE, <<>> >>

\* a step with angle -0.06 and speed 1 has returned
C17_Witness ==
    /\ Returned /\ op = "step"
    /\ action = [angle |-> -6, speed |-> 1]

\* C18: in each observation cycle the camera is requested exactly once and
\* before any LiDAR request; a call whose image decoding fails ends with no
\* LiDAR request and with the history buffer unchanged, and if it is a step
\* its actuator command has been dispatched all the same.
C18_CameraFirstAndFailureStopsCycle ==
    /\ [](op \in {"reset", "step"} =>
            /\ Cardinality(CallsOf("simGetImages")) = 1
            /\ \A i \in CallsOf("simGetImages") :
                  \A j \in CallsOf("getLidarData") : i < j
            /\ (pc = "idle" /\ imgs = <<>>) =>
                  /\ result.kind = "raise"
                  /\ CallsOf("getLidarData") = {}
                  /\ nPolls = 0
                  /\ lidarData = NoCloud
                  /\ op = "step" =>
                        /\ Len(calls) = 2
                        /\ calls[1].fn = "setCarControls"
                        /\ calls[1].controls.throttle = action.speed
                        /\ calls[1].controls.steering = action.angle)
    /\ [][(pc = "idle" /\ pc' = "idle" /\ op' \in {"reset", "step"}) =>
            UNCHANGED <<history, appended, steerArg>>]_vars

\* a step with angle 0.06 and speed 1 failed on a 2 x 2 image of 11 bytes
C18_Witness ==
    /\ op = "step" /\ pc = "idle" /\ result.kind = "raise"
    /\ responses = <<[height |-> 2, width |-> 2, nbytes |-> 11]>>
    /\ action = [angle |-> 6, speed |-> 1]

====
